---- MODULE Spec2Model ----
(***************************************************************************)
(* The currency converter of "JS API/app-script.js" as a state machine.    *)
(*                                                                         *)
(* State: the module-level variables of the script (isFetching,            *)
(* conversionRate, sourceCurrentValue, targetCurrentValue), the DOM        *)
(* properties the handlers read and write (the two selects, the two flag   *)
(* images, the amount input, the status text), the last alert() shown,     *)
(* navigator.onLine and the fetches in flight.                             *)
(*                                                                         *)
(* Numbers.  Amounts are held in hundredths (cents): every amount the      *)
(* script parses is a decimal text of at most two fraction digits.  A      *)
(* conversion rate is the IEEE-754 double nearest to the fraction n/d,     *)
(* displaced by u units in the last place; `1 / conversionRate` is         *)
(* Reciprocal, whose displacement is the one double division produces.     *)
(***************************************************************************)
EXTENDS Integers, Sequences, FiniteSets, Bags, TLC

VARIABLES
    selectSource,        \* selectSourceCurrency.value
    selectTarget,        \* selectTargetCurrency.value
    imageSource,         \* imageSourceCurrency.src (the currency whose flag is shown)
    imageTarget,         \* imageTargetCurrency.src
    inputValue,          \* inputSourceCurrency.value (a text)
    exchangeRateText,    \* exchangeRateText.textContent
    isFetching,          \* let isFetching
    conversionRate,      \* let conversionRate
    sourceCurrentValue,  \* let sourceCurrentValue (cents)
    targetCurrentValue,  \* let targetCurrentValue (the text toFixed(2) returned)
    lastAlert,           \* the message of the most recent alert()
    onLine,              \* navigator.onLine
    pending,             \* bag of the fetches in flight, each the pair in its URL
    converts,            \* history: number of handleConvert() runs
    calls,               \* history: number of fetch() calls issued
    lastEvent,           \* history: the handler that ran last
    rateFor,             \* history: the pair of the fetch that set the held rate
    swapHist,            \* history: (source, target, rate) before each of the
                         \*          last (at most two) consecutive swaps
    lastRate             \* history: the rate of the response with a rate that
                         \*          arrived last since a fetch was issued with
                         \*          none in flight; NoRate when there is none, or
                         \*          a swap has inverted the held rate since

vars == <<selectSource, selectTarget, imageSource, imageTarget, inputValue,
          exchangeRateText, isFetching, conversionRate, sourceCurrentValue,
          targetCurrentValue, lastAlert, onLine, pending, converts, calls,
          lastEvent, rateFor, swapHist, lastRate>>

----------------------------------------------------------------------------
(* Bounds and the sets the events draw from *)

\* handleConvert() runs at most this many times in a behaviour.
MaxConverts == 2

\* The codes offered by the selects: the two keys of currencyToFlagCode the
\* script names, the selects' defaults.
Currencies == {"USD", "PHP"}

Pairs == Currencies \X Currencies

NoPair == <<"none", "none">>

NoRate == [t |-> "none", n |-> 0, d |-> 1, u |-> 0]

----------------------------------------------------------------------------
(* Texts and numbers *)

\* A decimal text (or the number it parses to), in cents.
Num(c) == [t |-> "num", c |-> c]

\* The empty text "".
Blank == [t |-> "blank", c |-> 0]

\* The text "NaN".
NaNText == [t |-> "nan", c |-> 0]

\* The double nearest to n/d, displaced by u units in the last place.
Rate(n, d, u) == [t |-> "num", n |-> n, d |-> d, u |-> u]

Undefined == [t |-> "undefined", n |-> 0, d |-> 1, u |-> 0]

NaNRate == [t |-> "nan", n |-> 0, d |-> 1, u |-> 0]

\* What the user can type into the amount input: "", "0", "-5", "2".
TypedTexts == {Blank, Num(0), Num(-500), Num(200)}

\* The text the markup gives the amount input: none, or a default amount.
InitialTexts == {Blank, Num(200)}

\* The conversion rates the service answers with: 49 and 3.
ServiceRates == {Rate(49, 1, 0), Rate(3, 1, 0)}

\* How a fetch can end: fetch() rejects, response.json() rejects, the parsed
\* body has no conversion_rate, or it has one.
Outcomes ==
    {[kind |-> "rejected", rate |-> Undefined],
     [kind |-> "unparseable", rate |-> Undefined],
     [kind |-> "norate", rate |-> Undefined]}
    \cup {[kind |-> "rate", rate |-> r] : r \in ServiceRates}

Abs(x) == IF x < 0 THEN -x ELSE x

\* `inputSourceCurrency.value > 0`: the text is converted to a number
\* ("" to 0, "NaN" to NaN, which compares false).
GreaterThanZero(v) == v.t = "num" /\ v.c > 0

\* `inputSourceCurrency.value <= 0`
LessOrEqualZero_Strict(v) == v.t = "num" /\ v.c < 0

LessOrEqualZero(v) == (v.t = "num" /\ v.c <= 0) \/ v.t = "blank"

\* `parseFloat(inputSourceCurrency.value) || 0`
ParseFloatOrZero(v) == IF v.t = "num" THEN v.c ELSE 0

\* The doubles x for which 1/x, rounded to a double, lies one unit in the
\* last place above the double nearest to the exact reciprocal:
\* 1/0.02040816326530612 is 49.00000000000001.
ReciprocalOneUlpAbove == {Rate(1, 49, 0)}

\* `1 / conversionRate`.  1/undefined and 1/NaN are NaN.  A held rate of 0
\* is never inverted: the service's rates are positive.
Reciprocal(r) ==
    CASE r.t \in {"undefined", "nan"} -> NaNRate
      [] r.t = "num" /\ r.n # 0 ->
            Rate(r.d, r.n, IF r \in ReciprocalOneUlpAbove THEN 1 ELSE 0)

\* p/d rounded to the nearest integer, a tie away from zero (d > 0).
RoundHalfAway_Truncating(p, d) ==
    LET q == Abs(p) \div d
    IN  IF p < 0 THEN -q ELSE q

RoundHalfAway(p, d) ==
    LET a == Abs(p)
        q == a \div d
        k == IF 2 * (a % d) >= d THEN q + 1 ELSE q
    IN  IF p < 0 THEN -k ELSE k

\* `(sourceCurrentValue * conversionRate).toFixed(2)`: a product with
\* undefined or NaN is NaN, and NaN.toFixed(2) is "NaN".
ToFixed2(c, r) ==
    IF r.t = "num" THEN Num(RoundHalfAway(c * r.n, r.d)) ELSE NaNText

\* The text an assignment `inputSourceCurrency.value = x` leaves in the
\* input: x itself, except that an input of type number replaces a text
\* that is no number by "" (the markup is not part of the script).
AssignedValue(x) == IF x.t = "nan" THEN {NaNText, Blank} ELSE {x}

\* The text of `${formatCurrency(source)} ${from} = ${formatCurrency(target)} ${to}`.
ResultText(s, from, tv, to) ==
    [kind |-> "result", s |-> s, from |-> from, tv |-> tv, to |-> to]

StatusText(kind) ==
    [kind |-> kind, s |-> 0, from |-> "", tv |-> Num(0), to |-> ""]

\* updateExchangeRate(), run with the input text v, the rate r and the
\* selected codes from and to.
updateExchangeRate_HeldAmount(v, r, from, to) ==
    /\ sourceCurrentValue' = sourceCurrentValue
    /\ targetCurrentValue' = ToFixed2(sourceCurrentValue, r)
    /\ exchangeRateText' =
          ResultText(sourceCurrentValue, from, ToFixed2(sourceCurrentValue, r), to)

updateExchangeRate_StaleTarget(v, r, from, to) ==
    /\ sourceCurrentValue' = ParseFloatOrZero(v)
    /\ targetCurrentValue' = targetCurrentValue
    /\ exchangeRateText' =
          ResultText(ParseFloatOrZero(v), from, ToFixed2(ParseFloatOrZero(v), r), to)

updateExchangeRate(v, r, from, to) ==
    /\ sourceCurrentValue' = ParseFloatOrZero(v)
    /\ targetCurrentValue' = ToFixed2(ParseFloatOrZero(v), r)
    /\ exchangeRateText' =
          ResultText(ParseFloatOrZero(v), from, ToFixed2(ParseFloatOrZero(v), r), to)

----------------------------------------------------------------------------
(* Initial state *)

Init ==
    /\ selectSource = "USD"
    /\ selectTarget = "PHP"
    /\ imageSource = "markup"
    /\ imageTarget = "markup"
    /\ inputValue \in InitialTexts
    /\ exchangeRateText = StatusText("markup")
    /\ isFetching = FALSE
    /\ conversionRate = Rate(0, 1, 0)
    /\ sourceCurrentValue = 0
    /\ targetCurrentValue = Num(0)
    /\ lastAlert = "none"
    /\ onLine \in BOOLEAN
    /\ pending = EmptyBag
    /\ converts = 0
    /\ calls = 0
    /\ lastEvent = "init"
    /\ rateFor = NoPair
    /\ swapHist = <<>>
    /\ lastRate = NoRate

----------------------------------------------------------------------------
(* Handlers *)

\* `[a, b] = [b, a]`
SwappedPair_Sequential(a, b) == <<b, b>>

SwappedPair(a, b) == <<b, a>>

\* `if (isFetching) { conversionRate = 1 / conversionRate; }`
SwapRate_NoInversion(valid, r) == r

SwapRate(valid, r) == IF valid THEN Reciprocal(r) ELSE r

\* The click listener of buttonSwap.
buttonSwapClick ==
    \E v \in AssignedValue(targetCurrentValue) :
        LET codes == SwappedPair(selectSource, selectTarget)
            flags == SwappedPair(imageSource, imageTarget)
            r     == SwapRate(isFetching, conversionRate)
        IN  /\ selectSource' = codes[1]
            /\ selectTarget' = codes[2]
            /\ imageSource' = flags[1]
            /\ imageTarget' = flags[2]
            /\ inputValue' = v
            /\ conversionRate' = r
            /\ updateExchangeRate(v, r, codes[1], codes[2])
            /\ lastEvent' = "swap"
            /\ rateFor' = IF isFetching THEN <<rateFor[2], rateFor[1]>> ELSE rateFor
            /\ swapHist' = (IF swapHist = <<>> THEN <<>> ELSE <<swapHist[Len(swapHist)]>>)
                              \o <<<<selectSource, selectTarget, conversionRate>>>>
            /\ lastRate' = IF isFetching THEN NoRate ELSE lastRate
            /\ UNCHANGED <<isFetching, lastAlert, onLine, pending, converts, calls>>

\* Whether the input listener recomputes: its two `if`s, the first on
\* `isFetching && value > 0`, the second on `isFetching`.
InputRecomputes(valid, v) == (valid /\ GreaterThanZero(v)) \/ valid

\* The input listener of inputSourceCurrency, after the user has made the
\* input's text v.
inputListener(v) ==
    /\ inputValue' = v
    /\ IF InputRecomputes(isFetching, v)
          THEN updateExchangeRate(v, conversionRate, selectSource, selectTarget)
          ELSE UNCHANGED <<sourceCurrentValue, targetCurrentValue, exchangeRateText>>
    /\ lastEvent' = "input"
    /\ swapHist' = <<>>
    /\ UNCHANGED <<selectSource, selectTarget, imageSource, imageTarget, isFetching,
                   conversionRate, lastAlert, onLine, pending, converts, calls, rateFor,
                   lastRate>>

\* `if (!navigator.onLine)` of handleConvert.
Offline_Never == FALSE

Offline == ~onLine

\* The fetches `await fetch(...)` issues: one, for the pair in its URL.
FetchesIssued_Twice(from, to) == (<<from, to>> :> 2)

FetchesIssued(from, to) == SetToBag({<<from, to>>})

\* handleConvert() up to its first await (a click on buttonConvert, or Enter
\* in the input): the two checks, then the fetch for the selected pair.
handleConvert_Invalidates ==
    /\ converts < MaxConverts
    /\ converts' = converts + 1
    /\ lastEvent' = "convert"
    /\ swapHist' = <<>>
    /\ IF LessOrEqualZero(inputValue)
          THEN /\ lastAlert' = "Please enter a valid amount."
               /\ UNCHANGED <<exchangeRateText, pending, calls, lastRate, isFetching>>
          ELSE IF Offline
          THEN /\ lastAlert' = "You are offline. Please check your internet connection."
               /\ exchangeRateText' = StatusText("No internet connection!")
               /\ UNCHANGED <<pending, calls, lastRate, isFetching>>
          ELSE /\ exchangeRateText' = StatusText("Fetching exchange rate, please wait...")
               /\ pending' = pending (+) FetchesIssued(selectSource, selectTarget)
               /\ calls' = calls + 1
               /\ lastRate' = IF pending = EmptyBag THEN NoRate ELSE lastRate
               /\ isFetching' = FALSE
               /\ UNCHANGED lastAlert
    /\ UNCHANGED <<selectSource, selectTarget, imageSource, imageTarget, inputValue,
                   conversionRate, sourceCurrentValue, targetCurrentValue,
                   onLine, rateFor>>

handleConvert ==
    /\ converts < MaxConverts
    /\ converts' = converts + 1
    /\ lastEvent' = "convert"
    /\ swapHist' = <<>>
    /\ IF LessOrEqualZero(inputValue)
          THEN /\ lastAlert' = "Please enter a valid amount."
               /\ UNCHANGED <<exchangeRateText, pending, calls, lastRate>>
          ELSE IF Offline
          THEN /\ lastAlert' = "You are offline. Please check your internet connection."
               /\ exchangeRateText' = StatusText("No internet connection!")
               /\ UNCHANGED <<pending, calls, lastRate>>
          ELSE /\ exchangeRateText' = StatusText("Fetching exchange rate, please wait...")
               /\ pending' = pending (+) FetchesIssued(selectSource, selectTarget)
               /\ calls' = calls + 1
               /\ lastRate' = IF pending = EmptyBag THEN NoRate ELSE lastRate
               /\ UNCHANGED lastAlert
    /\ UNCHANGED <<selectSource, selectTarget, imageSource, imageTarget, inputValue,
                   isFetching, conversionRate, sourceCurrentValue, targetCurrentValue,
                   onLine, rateFor>>

\* The rest of handleConvert(), run when the fetch issued for the pair p
\* settles with outcome o: the two assignments and updateExchangeRate(), or
\* the catch block.
fetchSettles_DiscardsStale(p, o) ==
    /\ BagIn(p, pending)
    /\ pending' = pending (-) SetToBag({p})
    /\ lastEvent' = "response"
    /\ swapHist' = <<>>
    /\ IF o.kind \in {"rate", "norate"}
          THEN IF p = <<selectSource, selectTarget>>
                  THEN /\ conversionRate' = o.rate
                       /\ isFetching' = TRUE
                       /\ updateExchangeRate(inputValue, o.rate, selectSource, selectTarget)
                       /\ rateFor' = p
                  ELSE UNCHANGED <<conversionRate, isFetching, sourceCurrentValue,
                                   targetCurrentValue, exchangeRateText, rateFor>>
          ELSE /\ exchangeRateText' =
                     IF ~onLine THEN StatusText("No internet connection!")
                                ELSE StatusText("Error fetching exchange rate!")
               /\ UNCHANGED <<conversionRate, isFetching, sourceCurrentValue,
                              targetCurrentValue, rateFor>>
    /\ lastRate' = IF o.kind = "rate" THEN o.rate ELSE lastRate
    /\ UNCHANGED <<selectSource, selectTarget, imageSource, imageTarget, inputValue,
                   lastAlert, onLine, converts, calls>>

fetchSettles(p, o) ==
    /\ BagIn(p, pending)
    /\ pending' = pending (-) SetToBag({p})
    /\ lastEvent' = "response"
    /\ swapHist' = <<>>
    /\ IF o.kind \in {"rate", "norate"}
          THEN /\ conversionRate' = o.rate
               /\ isFetching' = TRUE
               /\ updateExchangeRate(inputValue, o.rate, selectSource, selectTarget)
               /\ rateFor' = p
          ELSE /\ exchangeRateText' =
                     IF ~onLine THEN StatusText("No internet connection!")
                                ELSE StatusText("Error fetching exchange rate!")
               /\ UNCHANGED <<conversionRate, isFetching, sourceCurrentValue,
                              targetCurrentValue, rateFor>>
    /\ lastRate' = IF o.kind = "rate" THEN o.rate ELSE lastRate
    /\ UNCHANGED <<selectSource, selectTarget, imageSource, imageTarget, inputValue,
                   lastAlert, onLine, converts, calls>>

\* `isFetching = false` of the change listener.
ValidAfterChange_Kept(valid) == valid

ValidAfterChange(valid) == FALSE

\* The change listener of a select, after the user has picked code in the
\* select of role sel; changeFlag() shows the flag of the picked code.
selectChange(sel, code) ==
    LET from == IF sel = "source" THEN code ELSE selectSource
        to   == IF sel = "target" THEN code ELSE selectTarget
    IN  /\ code # (IF sel = "source" THEN selectSource ELSE selectTarget)
        /\ selectSource' = from
        /\ selectTarget' = to
        /\ inputValue' = Num(0)
        /\ isFetching' = ValidAfterChange(isFetching)
        /\ updateExchangeRate(Num(0), conversionRate, from, to)
        /\ imageSource' = IF sel = "source" THEN code ELSE imageSource
        /\ imageTarget' = IF sel = "target" THEN code ELSE imageTarget
        /\ lastEvent' = "select"
        /\ swapHist' = <<>>
        /\ UNCHANGED <<conversionRate, lastAlert, onLine, pending, converts, calls,
                       rateFor, lastRate>>

\* navigator.onLine changes with the device's connectivity.
connectivityChange ==
    /\ onLine' = ~onLine
    /\ UNCHANGED <<selectSource, selectTarget, imageSource, imageTarget, inputValue,
                   exchangeRateText, isFetching, conversionRate, sourceCurrentValue,
                   targetCurrentValue, lastAlert, pending, converts, calls,
                   lastEvent, rateFor, swapHist, lastRate>>

Next ==
    \/ buttonSwapClick
    \/ \E v \in TypedTexts : inputListener(v)
    \/ handleConvert
    \/ \E p \in Pairs, o \in Outcomes : fetchSettles(p, o)
    \/ \E sel \in {"source", "target"}, code \in Currencies : selectChange(sel, code)
    \/ connectivityChange

Spec == Init /\ [][Next]_vars

----------------------------------------------------------------------------
(* Claims *)

Roles == {"source", "target"}

\* A step by the change listener of either select.
SelectionChanges == \E sel \in Roles, code \in Currencies : selectChange(sel, code)

\* The entered amount (a blank input counts as 0) is 0 or less.
AmountAtMostZero ==
    (inputValue.t = "num" /\ inputValue.c <= 0) \/ inputValue.t = "blank"

RateIsPositiveNumber == conversionRate.t = "num" /\ conversionRate.n > 0

\* k hundredths is x * n/d hundredths rounded to the nearest hundredth.
IsRound2(k, x, n, d) == 2 * Abs(k * d - x * n) <= d

\* Double y is double x, or the double next to it.
WithinOneUlp(x, y) ==
    IF x.t = "num" /\ y.t = "num"
       THEN x.n = y.n /\ x.d = y.d /\ Abs(x.u - y.u) <= 1
       ELSE x.t # "num" /\ y.t # "num"

\* C1: whenever the rate is held as valid (isFetching), it is the rate of
\* the selected (source, target) pair: the response that set it answered a
\* fetch issued for that pair, or a swap turned the rate of the swapped
\* pair into it.
C1_ValidRateIsOfSelectedPair ==
    isFetching => rateFor = <<selectSource, selectTarget>>

\* C2: every step of a select's change listener ends with the rate invalid
\* (isFetching false), whatever held before.
C2_SelectionChangeInvalidates ==
    [][SelectionChanges => ~isFetching']_vars

\* C2's case: a selection change has just run with a fetched rate held and a
\* request outstanding, and the rate is invalid.
C2_Witness ==
    /\ lastEvent = "select"
    /\ ~isFetching
    /\ conversionRate = Rate(49, 1, 0)
    /\ pending # EmptyBag

\* C3: a swap made while the rate R is valid exchanges the two currencies,
\* leaves 1/R as the rate (for a number R = n/d the double of d/n; for a rate
\* that is no number, NaN), keeps it valid, and issues no fetch.
C3_SwapInvertsValidRate ==
    [][(buttonSwapClick /\ isFetching) =>
          /\ selectSource' = selectTarget
          /\ selectTarget' = selectSource
          /\ IF conversionRate.t = "num"
                THEN /\ conversionRate'.t = "num"
                     /\ conversionRate'.n * conversionRate.n
                           = conversionRate'.d * conversionRate.d
                     /\ conversionRate'.u \in {0, 1}
                ELSE conversionRate' = NaNRate
          /\ isFetching'
          /\ pending' = pending
          /\ calls' = calls]_vars

\* C3's case: the valid rate 49 of USD to PHP has just been swapped into
\* 1/49 of PHP to USD, still valid, with the one fetch that set it.
C3_Witness ==
    /\ lastEvent = "swap"
    /\ isFetching
    /\ swapHist = <<<<"USD", "PHP", Rate(49, 1, 0)>>>>
    /\ selectSource = "PHP"
    /\ selectTarget = "USD"
    /\ conversionRate = Rate(1, 49, 0)
    /\ calls = 1
    /\ pending = EmptyBag

\* C4 as stated: after two swaps in a row the source, the target and the
\* rate (a number) are exactly those held before the first of the two.
C4_DoubleSwapRestoresExactly ==
    (Len(swapHist) = 2 /\ swapHist[1][3].t = "num") =>
        <<selectSource, selectTarget, conversionRate>> = swapHist[1]

\* C4 amended: after two swaps in a row the source and the target are those
\* held before the first of the two; the rate is exactly the one held
\* before when it is not valid, and when it is valid the same double or
\* the double next to it (a rate that is no number stays no number).
C4_DoubleSwapRestoresWithinRounding ==
    Len(swapHist) = 2 =>
        /\ selectSource = swapHist[1][1]
        /\ selectTarget = swapHist[1][2]
        /\ WithinOneUlp(conversionRate, swapHist[1][3])
        /\ ~isFetching => conversionRate = swapHist[1][3]

\* C4's case: two swaps in a row of the valid rate 49 have led to
\* 49.00000000000001, the double next to 49.
C4_Witness ==
    /\ Len(swapHist) = 2
    /\ isFetching
    /\ swapHist[1] = <<"USD", "PHP", Rate(49, 1, 0)>>
    /\ selectSource = "USD"
    /\ selectTarget = "PHP"
    /\ conversionRate = Rate(49, 1, 1)

\* C5: handleConvert() run while the entered amount is 0 or less alerts
\* 'Please enter a valid amount.', issues no fetch and changes neither the
\* rate, its validity nor the amounts.
C5_InvalidAmountRejected ==
    [][(handleConvert /\ AmountAtMostZero) =>
          /\ lastAlert' = "Please enter a valid amount."
          /\ pending' = pending
          /\ calls' = calls
          /\ UNCHANGED <<conversionRate, isFetching, inputValue,
                         sourceCurrentValue, targetCurrentValue>>]_vars

\* C5's case: a convert request with the amount 0 has just been rejected
\* while online, and no fetch was ever issued.
C5_Witness ==
    /\ lastEvent = "convert"
    /\ lastAlert = "Please enter a valid amount."
    /\ inputValue = Num(0)
    /\ onLine
    /\ converts = 1
    /\ calls = 0
    /\ pending = EmptyBag

\* C6 as stated: handleConvert() run while offline alerts that the device is
\* offline, shows 'No internet connection!', issues no fetch and leaves the
\* rate and its validity as they were.
C6_OfflineRejected ==
    [][(handleConvert /\ ~onLine) =>
          /\ lastAlert' = "You are offline. Please check your internet connection."
          /\ exchangeRateText' = StatusText("No internet connection!")
          /\ pending' = pending
          /\ calls' = calls
          /\ UNCHANGED <<conversionRate, isFetching>>]_vars

\* C6 amended: the same, for a convert request whose entered amount is not
\* 0 or less (the amount is checked first).
C6_OfflineRejectedAfterAmountCheck ==
    [][(handleConvert /\ ~onLine /\ ~AmountAtMostZero) =>
          /\ lastAlert' = "You are offline. Please check your internet connection."
          /\ exchangeRateText' = StatusText("No internet connection!")
          /\ pending' = pending
          /\ calls' = calls
          /\ UNCHANGED <<conversionRate, isFetching>>]_vars

\* C6's case: with a valid rate held, a convert request for the amount 2
\* has just been rejected as offline.
C6_Witness ==
    /\ lastEvent = "convert"
    /\ lastAlert = "You are offline. Please check your internet connection."
    /\ exchangeRateText = StatusText("No internet connection!")
    /\ ~onLine
    /\ inputValue = Num(200)
    /\ isFetching
    /\ conversionRate = Rate(49, 1, 0)
    /\ calls = 1
    /\ pending = EmptyBag

\* C7: when a fetch ends without a conversion rate (fetch() rejects, the
\* body does not parse, or the parsed body has no conversion_rate), an
\* error status is shown and the rate, its validity and the amounts are
\* those held before the response.
C7_FailedFetchChangesNothing ==
    [][\A p \in Pairs, o \in Outcomes :
          (o.kind # "rate" /\ fetchSettles(p, o)) =>
              /\ exchangeRateText' \in {StatusText("Error fetching exchange rate!"),
                                        StatusText("No internet connection!")}
              /\ UNCHANGED <<conversionRate, isFetching, inputValue,
                             sourceCurrentValue, targetCurrentValue>>]_vars

\* C8: the amounts the session holds are never negative.
C8_AmountsNeverNegative ==
    /\ sourceCurrentValue >= 0
    /\ targetCurrentValue.t = "num" => targetCurrentValue.c >= 0

\* C9: whenever a rate r > 0 is valid and the entered amount a is 0 or
\* more, the converted amount is a * r rounded to two decimal places.
C9_OutputIsRoundedProduct ==
    (isFetching /\ RateIsPositiveNumber /\ ParseFloatOrZero(inputValue) >= 0) =>
        /\ targetCurrentValue.t = "num"
        /\ IsRound2(targetCurrentValue.c, ParseFloatOrZero(inputValue),
                    conversionRate.n, conversionRate.d)

\* C9's case: with the rate 1/3 valid, the amount 2 has just been typed
\* and the converted amount is 0.67.
C9_Witness ==
    /\ lastEvent = "input"
    /\ isFetching
    /\ conversionRate = Rate(1, 3, 0)
    /\ inputValue = Num(200)
    /\ sourceCurrentValue = 200
    /\ targetCurrentValue = Num(67)

\* C10: every step of a select's change listener leaves the entered amount
\* and the converted amount at 0.
C10_SelectionChangeZeroesAmounts ==
    [][SelectionChanges =>
          /\ inputValue' = Num(0)
          /\ sourceCurrentValue' = 0
          /\ targetCurrentValue' = Num(0)]_vars

\* The convert request passes the amount check and the connectivity check.
PassesChecks == ~AmountAtMostZero /\ onLine

\* C11: a convert request that passes both checks puts exactly one fetch in
\* flight, for the pair selected at that moment; no other step puts a fetch
\* in flight (a failed fetch is not retried); and the fetches issued never
\* outnumber the convert requests.
C11_OneCallPerConvert ==
    [][/\ (handleConvert /\ PassesChecks) =>
             /\ pending' = pending (+) SetToBag({<<selectSource, selectTarget>>})
             /\ calls' = calls + 1
       /\ ~handleConvert =>
             /\ calls' = calls
             /\ pending' \sqsubseteq pending
       /\ calls' <= converts']_vars

\* C11's case: the one fetch of the one convert request has just failed,
\* and nothing is in flight: it was not retried.
C11_Witness ==
    /\ lastEvent = "response"
    /\ exchangeRateText = StatusText("Error fetching exchange rate!")
    /\ converts = 1
    /\ calls = 1
    /\ pending = EmptyBag

\* A step in which a fetch ends with a conversion rate.
SuccessfulResponse ==
    \E p \in Pairs, o \in Outcomes : o.kind = "rate" /\ fetchSettles(p, o)

\* C12: the rate and its validity change only in three kinds of step: a
\* response with a conversion rate sets the rate and makes it valid, a
\* selection change makes it invalid and leaves the rate, a swap leaves the
\* validity and changes the rate only when it is valid.  Every other step
\* (an amount change, a convert request whether rejected or issued, a
\* failed response, a connectivity change) leaves both as they were.
C12_RateChangesOnlyByThreeEvents ==
    [][/\ \A p \in Pairs, o \in Outcomes :
             (o.kind = "rate" /\ fetchSettles(p, o)) =>
                 conversionRate' = o.rate /\ isFetching'
       /\ SelectionChanges =>
             ~isFetching' /\ conversionRate' = conversionRate
       /\ buttonSwapClick =>
             /\ isFetching' = isFetching
             /\ ~isFetching => conversionRate' = conversionRate
       /\ ~(SuccessfulResponse \/ SelectionChanges \/ buttonSwapClick) =>
             UNCHANGED <<conversionRate, isFetching>>]_vars

\* C13: a response with a conversion rate sets the rate and makes it valid
\* also when the pair selected on its arrival is not the pair it was
\* fetched for: it is not discarded, and the selection stays as it is.
C13_StaleResponseStillApplied ==
    [][\A p \in Pairs, o \in Outcomes :
          (o.kind = "rate" /\ fetchSettles(p, o)
              /\ p # <<selectSource, selectTarget>>) =>
              /\ conversionRate' = o.rate
              /\ isFetching'
              /\ rateFor' = p
              /\ UNCHANGED <<selectSource, selectTarget>>]_vars

\* C13's case: the response to the only request, issued for USD to PHP, has
\* just arrived after the target select was changed to USD, and its rate 49
\* is held as valid for USD to USD.
C13_Witness ==
    /\ lastEvent = "response"
    /\ calls = 1
    /\ rateFor = <<"USD", "PHP">>
    /\ selectSource = "USD"
    /\ selectTarget = "USD"
    /\ isFetching
    /\ conversionRate = Rate(49, 1, 0)

\* C14: a fetch can be issued while another is in flight, and once no fetch
\* is in flight the held rate is the rate of the response with a rate that
\* arrived last among those of the requests that were in flight together
\* (no swap having inverted the held rate since), in whatever order the
\* requests were issued.
C14_LastSuccessfulResponseWins ==
    (pending = EmptyBag /\ lastRate # NoRate) => conversionRate = lastRate

\* C15: in every reachable state the held converted amount
\* (targetCurrentValue) is the held amount (sourceCurrentValue) times the
\* held rate (conversionRate) rounded to two decimals, "NaN" when the rate is
\* no number; so no handler leaves it out of step with the other two.  While
\* the rate is valid the held amount is the amount in the input.
C15_OutputInStepWithAmountAndRate ==
    /\ IF conversionRate.t = "num"
          THEN /\ targetCurrentValue.t = "num"
               /\ IsRound2(targetCurrentValue.c, sourceCurrentValue,
                           conversionRate.n, conversionRate.d)
          ELSE targetCurrentValue = NaNText
    /\ isFetching => sourceCurrentValue = ParseFloatOrZero(inputValue)

\* C15's case: a swap has just carried 6.00 over as the amount with the valid
\* rate 3 inverted, and the converted amount is 2.00.
C15_Witness ==
    /\ lastEvent = "swap"
    /\ isFetching
    /\ conversionRate = Rate(1, 3, 0)
    /\ sourceCurrentValue = 600
    /\ targetCurrentValue = Num(200)

\* C16: a response with the rate r recomputes the converted amount from
\* the amount b in the input when the response arrives (a blank input counts
\* as 0), whatever the amount was when the fetch was issued: the held amount
\* becomes b and the converted amount b * r rounded to two decimals.
C16_ResponseUsesAmountAtArrival ==
    [][\A p \in Pairs, o \in Outcomes :
          (o.kind = "rate" /\ fetchSettles(p, o)) =>
              /\ sourceCurrentValue' = ParseFloatOrZero(inputValue)
              /\ targetCurrentValue'.t = "num"
              /\ IsRound2(targetCurrentValue'.c, ParseFloatOrZero(inputValue),
                          o.rate.n, o.rate.d)]_vars

\* C16's case: the only request was issued (with a positive amount: it
\* passed the amount check), the amount was made -5.00 while it was
\* outstanding, and its response with the rate 3 has just given -15.00.
C16_Witness ==
    /\ lastEvent = "response"
    /\ converts = 1
    /\ calls = 1
    /\ inputValue = Num(-500)
    /\ conversionRate = Rate(3, 1, 0)
    /\ sourceCurrentValue = -500
    /\ targetCurrentValue = Num(-1500)

\* C17: a swap makes the amount (the input's text and the held amount) the
\* converted amount held just before it, leaves as the rate the inverse of
\* the rate when it is valid and the rate itself otherwise, and makes the
\* converted amount the new amount times that rate rounded to two decimals.
C17_SwapCarriesOutputForward ==
    [][buttonSwapClick =>
          /\ inputValue' = targetCurrentValue
          /\ Num(sourceCurrentValue') = targetCurrentValue
          /\ conversionRate' =
                IF isFetching THEN Reciprocal(conversionRate) ELSE conversionRate
          /\ IF conversionRate'.t = "num"
                THEN /\ targetCurrentValue'.t = "num"
                     /\ IsRound2(targetCurrentValue'.c, sourceCurrentValue',
                                 conversionRate'.n, conversionRate'.d)
                ELSE targetCurrentValue' = NaNText]_vars

\* A step by a user event other than a convert request.
OtherUserEvent ==
    \/ buttonSwapClick
    \/ \E v \in TypedTexts : inputListener(v)
    \/ SelectionChanges

\* A step in which a fetch settles.
ResponseDelivered == \E p \in Pairs, o \in Outcomes : fetchSettles(p, o)

\* C18 as stated: issuing a convert request changes neither the rate, nor
\* its validity, nor the amount, nor the converted amount; and while a
\* request stays outstanding (it is in flight before the step and after it)
\* they change only by an amount change, a swap or a selection change.
C18_StateKeptUntilOwnResponse ==
    [][/\ handleConvert =>
            UNCHANGED <<conversionRate, isFetching, inputValue,
                        sourceCurrentValue, targetCurrentValue>>
       /\ (pending # EmptyBag /\ pending' # EmptyBag /\ ~OtherUserEvent) =>
            UNCHANGED <<conversionRate, isFetching, inputValue,
                        sourceCurrentValue, targetCurrentValue>>]_vars

\* C18, amended: issuing a convert request changes neither the rate, nor its
\* validity, nor the amount, nor the converted amount; they change only by
\* an amount change, a swap, a selection change or the delivery of a
\* response, that of any outstanding request: every other step leaves the
\* four (and the input's text) as they were.
C18_IssuingChangesNoSessionState ==
    [][/\ handleConvert =>
            UNCHANGED <<conversionRate, isFetching, inputValue,
                        sourceCurrentValue, targetCurrentValue>>
       /\ ~(OtherUserEvent \/ ResponseDelivered) =>
            UNCHANGED <<conversionRate, isFetching, inputValue,
                        sourceCurrentValue, targetCurrentValue>>]_vars

\* C18's case: a second request has just been issued with the first one's
\* rate 49 valid and 2.00 converted to 98.00; it is outstanding and the
\* four are as the first response left them.
C18_Witness ==
    /\ lastEvent = "convert"
    /\ exchangeRateText = StatusText("Fetching exchange rate, please wait...")
    /\ pending # EmptyBag
    /\ isFetching
    /\ conversionRate = Rate(49, 1, 0)
    /\ sourceCurrentValue = 200
    /\ targetCurrentValue = Num(9800)

\* C19: in every reachable state where the rate is not valid (isFetching
\* false) the held converted amount is 0, whatever rate is still stored.
C19_NoOutputWithoutValidRate ==
    ~isFetching => targetCurrentValue = Num(0)

====
